---- MODULE Spec2Model ----
(***************************************************************************)
(* StreamCapture (src/src/stream_capture.py): the primary capture loop     *)
(* execute_capture, the fallback loop capture_generic_frames, the handle   *)
(* lifecycle (initialise_stream / release_resources) and the quality       *)
(* selection select_quality_based_on_speed.                                *)
(*                                                                         *)
(* One engine instance and its consumer.  The generator is cut at its      *)
(* suspension points (the awaits on asyncio.sleep and the yields); the     *)
(* code between two suspension points is one action.  Time is an integer   *)
(* number of seconds.                                                      *)
(*                                                                         *)
(* ViolationSender.send_violation (src/src/violation_sender.py): one call  *)
(* of it, one action per iteration of its retry loop; and the tasks that   *)
(* call _get_client and close on one sender, cut at their awaits.          *)
(***************************************************************************)
EXTENDS Integers, Sequences, FiniteSets, TLC

\* ---------------------------------------------------------------- bounds
MaxTime == 10          \* the clock is not advanced past this
MaxStep == 1           \* longest time one read / one consumer turn takes
MaxFail == 6           \* consecutive failures followed in one streak
MaxInterval == 2       \* capture_interval ranges over 1..MaxInterval
MaxRetries == 4        \* max_retries ranges over 0..MaxRetries
NumTasks == 3          \* tasks calling _get_client and close
MaxClients == 3        \* httpx.AsyncClient objects created in one run

\* ------------------------------------------------------ program constants
FailThreshold == 5     \* fail_count >= 5
RetryDelay == 5        \* asyncio.sleep(5)
HighSpeed == 10        \* download_speed > 10
LowSpeed == 5          \* 5 < download_speed
DefaultMaxRetries == 3 \* max_retries: int = 3
InitialBackoff == 1    \* backoff_delay = 1
BackoffFactor == 2     \* backoff_delay *= 2

VARIABLES
    pc,                     \* position of the generator
    init_caller,            \* call site of the initialise_stream in progress
    mode,                   \* "Primary" until capture_generic_frames is entered
    generic_entries,        \* times capture_generic_frames was entered
    cap,                    \* self.cap: "None", or the source it was created on
    cap_opened,             \* self.cap.isOpened()
    orphans,                \* open handles no longer referenced by self.cap
    successfully_captured,  \* self.successfully_captured
    capture_interval,       \* self.capture_interval
    fail_count,             \* fail_count of the loop that is running
    last_process_time,      \* last_process_time of the loop that is running
    stream_url,             \* stream_url of capture_generic_frames
    now,                    \* datetime.datetime.now()
    emitted,                \* the last two frames yielded to the consumer
    emit_sources,           \* the loops that have yielded a frame
    gate_interval,          \* capture_interval as the gate of the last
                            \* emission read it
    ended_streak,           \* failed reads in a row that the last step, a
                            \* successful read, put an end to; else 0
    unclosed,               \* cv2.VideoCapture objects created minus
                            \* cap.release() calls
    ops,                    \* reader / probe / resolver calls of the last step
    q_speed, q_streams, q_resolver_ok, q_result,
                            \* inputs and result of one quality selection
    send_pc,                \* position of one call of send_violation
    max_retries,            \* self.max_retries
    attempt,                \* attempt of the retry loop
    backoff_delay,          \* backoff_delay of the retry loop
    headers,                \* token in headers['Authorization']
    posts,                  \* client.post calls made
    waits,                  \* the delays slept, in order
    outcomes,               \* what each client.post gave, in order
    result,                 \* what the call returned or raised
    token,                  \* what get_valid_token returned last
    sent_token,             \* token in the headers of the last client.post
    send_ops,               \* calls the last step of send_violation made
    client,                 \* self._client: 0 for None, else the client's id
    closed,                 \* the clients whose is_closed is true
    created,                \* httpx.AsyncClient objects created so far
    client_lock,            \* self._client_lock.locked()
    lock_waiters,           \* tasks waiting for self._client_lock, in order
    task_pc,                \* position of each task
    target,                 \* the client each task called aclose on
    c_got,                  \* the client the last step returned to its
                            \* caller, if it was a _get_client; else 0
    c_call,                 \* the method whose body the last step ran
    c_ops                   \* calls on httpx the last step made

vars == <<pc, init_caller, mode, generic_entries, cap, cap_opened, orphans,
          successfully_captured, capture_interval, fail_count,
          last_process_time, stream_url, now, emitted, emit_sources,
          gate_interval, ended_streak, unclosed, ops, q_speed, q_streams,
          q_resolver_ok, q_result, send_pc, max_retries, attempt,
          backoff_delay, headers, posts, waits, outcomes, result, token,
          sent_token, send_ops, client, closed, created, client_lock,
          lock_waiters, task_pc, target, c_got, c_call, c_ops>>

engineVars == <<pc, init_caller, mode, generic_entries, cap, cap_opened,
                orphans, successfully_captured, capture_interval, fail_count,
                last_process_time, stream_url, now, emitted, emit_sources,
                gate_interval, ended_streak, unclosed, ops>>

selectVars == <<q_speed, q_streams, q_resolver_ok, q_result>>

sendVars == <<send_pc, max_retries, attempt, backoff_delay, headers, posts,
              waits, outcomes, result, token, sent_token, send_ops>>

clientVars == <<client, closed, created, client_lock, lock_waiters, task_pc,
                target, c_got, c_call, c_ops>>

\* what the engine does not touch
outsideEngine == <<selectVars, sendVars, clientVars>>

\* ------------------------------------------------------ quality selection
Labels == {"best", "1080p", "720p", "480p", "360p", "240p", "worst",
           "audio_only"}

\* download speeds in Mbps, as fractions num/den
Speeds == {[num |-> 3, den |-> 1], [num |-> 5, den |-> 1],
           [num |-> 11, den |-> 2], [num |-> 7, den |-> 1],
           [num |-> 10, den |-> 1], [num |-> 21, den |-> 2],
           [num |-> 12, den |-> 1]}

Gt(speed, k) == speed.num > k * speed.den

high_ladder == <<"best", "1080p", "720p", "480p", "360p", "240p", "worst">>
mid_ladder == <<"720p", "480p", "360p", "240p", "worst">>
low_ladder == <<"480p", "360p", "240p", "worst">>

\* variant with the upper threshold inclusive
preferred_from_ten(download_speed) ==
    IF download_speed.num >= HighSpeed * download_speed.den THEN high_ladder
    ELSE IF Gt(download_speed, LowSpeed) THEN mid_ladder
    ELSE low_ladder

preferred_qualities(download_speed) ==
    IF Gt(download_speed, HighSpeed) THEN high_ladder
    ELSE IF Gt(download_speed, LowSpeed) /\ ~Gt(download_speed, HighSpeed)
         THEN mid_ladder
    ELSE low_ladder

RECURSIVE first_available(_, _)
first_available(qualities, available_qualities) ==
    IF qualities = <<>> THEN "None"
    ELSE IF Head(qualities) \in available_qualities THEN Head(qualities)
    ELSE first_available(Tail(qualities), available_qualities)

\* the label whose url is returned, "None" for a return of None
select_quality_based_on_speed(download_speed, streams, resolver_ok) ==
    IF ~resolver_ok THEN "None"
    ELSE first_available(preferred_qualities(download_speed), streams)

\* ----------------------------------------------------------------- engine
Suspended == {"init_sleep", "p_yield", "p_idle", "g_wait", "g_yield", "g_idle"}

Intervals == 1..MaxInterval

\* tier sets the resolver answers with in an engine run
AvailableSets == {{}, {"1080p"}, {"720p", "worst"},
                  {"480p", "360p", "worst"}}

\* variants of the handoff test: one failure late, and without the flag
HandoffOneLate(fc, succ) == fc > FailThreshold /\ ~succ

HandoffIgnoringSuccess(fc, succ) == fc >= FailThreshold

\* line 105
HandoffCondition(fc, succ) == fc >= FailThreshold /\ ~succ

\* variants of the re-initialisation test of capture_generic_frames
ReinitOneLate(fc, succ) == fc > FailThreshold /\ ~succ

ReinitIgnoringSuccess(fc, succ) == fc >= FailThreshold

\* line 229

ReinitCondition(fc, succ) == fc >= FailThreshold /\ ~succ

\* variant of the gate that opens one second early
GateOneEarly(current_time, last, interval) ==
    current_time - last >= interval - 1

\* lines 125 and 254
GateOpen(current_time, last, interval) == current_time - last >= interval

Frame(t, src) == [ts |-> t, src |-> src]

Remember(fr) ==
    IF Len(emitted) < 2 THEN Append(emitted, fr) ELSE <<emitted[2], fr>>

\* open handles of the reader: the one self.cap holds and the orphaned ones
LiveHandles == (IF cap # "None" /\ cap_opened THEN 1 ELSE 0) + orphans

InitEngine ==
    /\ pc = "created"
    /\ init_caller = "none"
    /\ mode = "Primary"
    /\ generic_entries = 0
    /\ cap = "None"
    /\ cap_opened = FALSE
    /\ orphans = 0
    /\ successfully_captured = FALSE
    /\ capture_interval \in Intervals
    /\ fail_count = 0
    /\ last_process_time = 0
    /\ stream_url = "None"
    /\ now = 0
    /\ emitted = <<>>
    /\ emit_sources = {}
    /\ gate_interval = 0
    /\ ended_streak = 0
    /\ unclosed = 0
    /\ ops = <<>>

\* a ViolationSender on which send_violation has not been called
InitSender ==
    /\ send_pc = "idle"
    /\ attempt = 0
    /\ backoff_delay = InitialBackoff
    /\ headers = "unset"
    /\ posts = 0
    /\ waits = <<>>
    /\ outcomes = <<>>
    /\ result = "none"
    /\ token = "unset"
    /\ sent_token = "unset"
    /\ send_ops = <<>>

Tasks == 1..NumTasks

\* self._client = None; self._client_lock = asyncio.Lock()
InitClient ==
    /\ client = 0
    /\ closed = {}
    /\ created = 0
    /\ client_lock = FALSE
    /\ lock_waiters = <<>>
    /\ task_pc = [t \in Tasks |-> "idle"]
    /\ target = [t \in Tasks |-> 0]
    /\ c_got = 0
    /\ c_call = "none"
    /\ c_ops = <<>>

InitSelection ==
    /\ q_speed = [num |-> 0, den |-> 1]
    /\ q_streams = {}
    /\ q_resolver_ok = TRUE
    /\ q_result = "unset"

Init ==
    /\ InitEngine
    /\ InitSelection
    /\ InitSender
    /\ max_retries = DefaultMaxRetries
    /\ InitClient

OpenOp(src) == IF src = "primary" THEN "open_primary" ELSE "open_generic"

RetryOp(src) ==
    IF src = "primary" THEN "retry_open_primary" ELSE "retry_open_generic"

ReadOp(src) == IF src = "primary" THEN "read_primary" ELSE "read_generic"

PrimaryOps == {"open_primary", "retry_open_primary", "read_primary"}

OpsSet == {ops[i] : i \in 1..Len(ops)}

\* variant without the reset
KeepOnSuccess(fc) == fc

\* fail_count after a successful read
ResetOnSuccess(fc) == 0

\* variant that goes on with the loop of execute_capture
AfterGenericContinue == "p_top"

\* where execute_capture goes once capture_generic_frames is exhausted
AfterGeneric == "done"

\* variant that leaves capture_generic_frames
AfterFailedReinitReturn == "done"

\* variant that starts capture_generic_frames again
AfterFailedReinitRestart == "g_entry"

\* where capture_generic_frames goes when its re-selection finds no quality
AfterFailedReinit == "g_top"

\* last_process_time at the start of execute_capture / capture_generic_frames
PrimaryStartTime(t, interval) == t - interval

GenericStartTime(t, interval) == t

\* variant of release_resources without the test of self.cap
ReleaseUnguarded(c, u) ==
    [cap |-> "None", unclosed |-> u - 1, ops |-> <<"close">>]

\* release_resources applied to a handle c with u handles not yet released:
\* the handle held afterwards, the count afterwards, the reader calls made
release_resources(c, u) ==
    IF c # "None"
    THEN [cap |-> "None", unclosed |-> u - 1, ops |-> <<"close">>]
    ELSE [cap |-> "None", unclosed |-> u, ops |-> <<>>]

\* the code that follows a call of initialise_stream, up to the next step
Continue(caller, fc, t) ==
    CASE caller = "start" ->
            /\ pc' = "p_top"
            /\ last_process_time' = PrimaryStartTime(t, capture_interval)
            /\ fail_count' = 0
            /\ UNCHANGED <<mode, generic_entries>>
      [] caller = "p_top" ->
            /\ pc' = "p_top"
            /\ fail_count' = fc
            /\ UNCHANGED <<last_process_time, mode, generic_entries>>
      [] caller = "p_fail" ->
            /\ fail_count' = fc
            /\ UNCHANGED last_process_time
            /\ IF HandoffCondition(fc, successfully_captured)
               THEN /\ pc' = "g_entry"
                    /\ mode' = "Fallback"
                    /\ generic_entries' = generic_entries + 1
               ELSE /\ pc' = "p_top"
                    /\ UNCHANGED <<mode, generic_entries>>
      [] caller = "g_entry" ->
            /\ pc' = "g_top"
            /\ last_process_time' = GenericStartTime(t, capture_interval)
            /\ fail_count' = 0
            /\ UNCHANGED <<mode, generic_entries>>
      [] caller = "g_reinit" ->
            /\ pc' = "g_top"
            /\ fail_count' = 0
            /\ UNCHANGED <<last_process_time, mode, generic_entries>>

\* variant of initialise_stream that sleeps and retries at startup only
initialise_stream_grace_at_start(src, opened, caller, fc, t, before, u) ==
    /\ cap' = src
    /\ cap_opened' = opened
    /\ unclosed' = u + 1
    /\ ops' = before \o <<OpenOp(src)>>
    /\ IF opened \/ caller # "start"
       THEN /\ init_caller' = "none"
            /\ Continue(caller, fc, t)
       ELSE /\ pc' = "init_sleep"
            /\ init_caller' = caller
            /\ fail_count' = fc
            /\ UNCHANGED <<last_process_time, mode, generic_entries>>

\* initialise_stream up to its sleep, called with u handles not yet released;
\* opened is the outcome of the open
initialise_stream(src, opened, caller, fc, t, before, u) ==
    /\ cap' = src
    /\ cap_opened' = opened
    /\ unclosed' = u + 1
    /\ ops' = before \o <<OpenOp(src)>>
    /\ IF opened
       THEN /\ init_caller' = "none"
            /\ Continue(caller, fc, t)
       ELSE /\ pc' = "init_sleep"
            /\ init_caller' = caller
            /\ fail_count' = fc
            /\ UNCHANGED <<last_process_time, mode, generic_entries>>

\* initialise_stream after its sleep: one more open on the same object
InitRetry(opened) ==
    /\ pc = "init_sleep"
    /\ ended_streak' = 0
    /\ now + RetryDelay <= MaxTime
    /\ now' = now + RetryDelay
    /\ cap_opened' = opened
    /\ ops' = <<"sleep", RetryOp(cap)>>
    /\ init_caller' = "none"
    /\ Continue(init_caller, fail_count, now')
    /\ UNCHANGED <<cap, orphans, successfully_captured, capture_interval,
                   stream_url, emitted, emit_sources, gate_interval, unclosed>>
    /\ UNCHANGED outsideEngine

\* the first pull of the consumer: execute_capture up to its loop
ExecuteCapture(opened) ==
    /\ pc = "created"
    /\ ended_streak' = 0
    /\ initialise_stream("primary", opened, "start", fail_count, now, <<>>,
                         unclosed)
    /\ UNCHANGED <<orphans, successfully_captured, capture_interval,
                   stream_url, now, emitted, emit_sources, gate_interval>>
    /\ UNCHANGED outsideEngine

\* variant of the gate that goes on to the sleep without waiting for the
\* consumer
GatePush(src, idle, yielded) ==
    /\ fail_count' = ResetOnSuccess(fail_count)
    /\ successfully_captured' = TRUE
    /\ ended_streak' = fail_count
    /\ IF GateOpen(now', last_process_time, capture_interval)
       THEN /\ last_process_time' = now'
            /\ emitted' = Remember(Frame(now', src))
            /\ gate_interval' = capture_interval
            /\ emit_sources' = emit_sources \cup {src}
            /\ ops' = <<ReadOp(src), "emit">>
            /\ pc' = idle
       ELSE /\ ops' = <<ReadOp(src)>>
            /\ pc' = idle
            /\ UNCHANGED <<last_process_time, emitted, emit_sources,
                           gate_interval>>

\* a successful read: the interval gate and the yield
Gate(src, idle, yielded) ==
    /\ fail_count' = ResetOnSuccess(fail_count)
    /\ successfully_captured' = TRUE
    /\ ended_streak' = fail_count
    /\ IF GateOpen(now', last_process_time, capture_interval)
       THEN /\ last_process_time' = now'
            /\ emitted' = Remember(Frame(now', src))
            /\ gate_interval' = capture_interval
            /\ emit_sources' = emit_sources \cup {src}
            /\ ops' = <<ReadOp(src), "emit">>
            /\ pc' = yielded
       ELSE /\ ops' = <<ReadOp(src)>>
            /\ pc' = idle
            /\ UNCHANGED <<last_process_time, emitted, emit_sources,
                           gate_interval>>

\* one iteration of the loop of execute_capture
PrimaryRead(ret, opened, dt) ==
    /\ pc = "p_top"
    /\ now + dt <= MaxTime
    /\ now' = now + dt
    /\ IF cap = "None"
       THEN /\ initialise_stream("primary", opened, "p_top", fail_count,
                                 now', <<>>, unclosed)
            /\ ended_streak' = 0
            /\ UNCHANGED <<orphans, successfully_captured, stream_url,
                           emitted, emit_sources, gate_interval>>
       ELSE IF ~(ret /\ cap_opened)
       THEN LET rel == release_resources(cap, unclosed)
            IN  /\ fail_count < MaxFail
                /\ orphans' = 0
                /\ ended_streak' = 0
                /\ initialise_stream("primary", opened, "p_fail",
                                     fail_count + 1, now',
                                     <<"read_primary">> \o rel.ops,
                                     rel.unclosed)
                /\ UNCHANGED <<successfully_captured, stream_url, emitted,
                               emit_sources, gate_interval>>
       ELSE /\ Gate("primary", "p_idle", "p_yield")
            /\ UNCHANGED <<init_caller, mode, generic_entries, cap,
                           cap_opened, orphans, stream_url, unclosed>>
    /\ UNCHANGED capture_interval
    /\ UNCHANGED outsideEngine

\* capture_generic_frames up to its loop
GenericEntry(download_speed, streams, resolver_ok, probe_ok, opened, fin) ==
    /\ pc = "g_entry"
    /\ ended_streak' = 0
    /\ IF ~probe_ok
       THEN /\ pc' = "raised"
            /\ ops' = <<"probe">>
            /\ UNCHANGED <<init_caller, mode, generic_entries, cap,
                           cap_opened, orphans, fail_count,
                           last_process_time, stream_url, unclosed>>
       ELSE LET url == select_quality_based_on_speed(download_speed,
                                                     streams, resolver_ok)
            IN  /\ stream_url' = url
                /\ IF url = "None"
                   THEN /\ pc' = AfterGeneric
                        /\ ops' = <<"probe", "resolve">>
                        /\ UNCHANGED <<init_caller, mode, generic_entries,
                                       cap, cap_opened, orphans, fail_count,
                                       last_process_time, unclosed>>
                   ELSE /\ orphans' = orphans +
                               (IF cap # "None" /\ cap_opened /\ ~fin
                                THEN 1 ELSE 0)
                        /\ initialise_stream("generic", opened, "g_entry",
                                             fail_count, now,
                                             <<"probe", "resolve">>,
                                             unclosed)
    /\ UNCHANGED <<successfully_captured, capture_interval, now, emitted,
                   emit_sources, gate_interval>>
    /\ UNCHANGED outsideEngine

\* one iteration of the loop of capture_generic_frames
GenericRead(ret, dt) ==
    /\ pc = "g_top"
    /\ now + dt <= MaxTime
    /\ now' = now + dt
    /\ IF ~(ret /\ cap # "None" /\ cap_opened)
       THEN LET rel == release_resources(cap, unclosed)
                read == IF cap # "None" THEN <<"read_generic">> ELSE <<>>
            IN  /\ fail_count < MaxFail
                /\ fail_count' = fail_count + 1
                /\ ended_streak' = 0
                /\ IF ReinitCondition(fail_count + 1, successfully_captured)
                   THEN /\ pc' = "g_wait"
                        /\ cap' = rel.cap
                        /\ cap_opened' = FALSE
                        /\ orphans' = 0
                        /\ unclosed' = rel.unclosed
                        /\ ops' = read \o rel.ops
                   ELSE /\ pc' = "g_top"
                        /\ ops' = read
                        /\ UNCHANGED <<cap, cap_opened, orphans, unclosed>>
                /\ UNCHANGED <<successfully_captured, last_process_time,
                               emitted, emit_sources, gate_interval>>
       ELSE /\ Gate("generic", "g_idle", "g_yield")
            /\ UNCHANGED <<cap, cap_opened, orphans, unclosed>>
    /\ UNCHANGED <<init_caller, mode, generic_entries, capture_interval,
                   stream_url>>
    /\ UNCHANGED outsideEngine

\* capture_generic_frames after the sleep that follows the release
GenericReinit(download_speed, streams, resolver_ok, probe_ok, opened) ==
    /\ pc = "g_wait"
    /\ ended_streak' = 0
    /\ now + RetryDelay <= MaxTime
    /\ now' = now + RetryDelay
    /\ IF ~probe_ok
       THEN /\ pc' = "raised"
            /\ ops' = <<"sleep", "probe">>
            /\ UNCHANGED <<init_caller, mode, generic_entries, cap,
                           cap_opened, fail_count, last_process_time,
                           stream_url, unclosed>>
       ELSE LET url == select_quality_based_on_speed(download_speed,
                                                     streams, resolver_ok)
            IN  /\ stream_url' = url
                /\ IF url = "None"
                   THEN /\ pc' = AfterFailedReinit
                        /\ ops' = <<"sleep", "probe", "resolve">>
                        /\ UNCHANGED <<init_caller, mode, generic_entries,
                                       cap, cap_opened, fail_count,
                                       last_process_time, unclosed>>
                   ELSE initialise_stream("generic", opened, "g_reinit",
                                          fail_count, now',
                                          <<"sleep", "probe", "resolve">>,
                                          unclosed)
    /\ UNCHANGED <<orphans, successfully_captured, capture_interval,
                   emitted, emit_sources, gate_interval>>
    /\ UNCHANGED outsideEngine

\* the consumer asks for the next frame: the generator resumes after its
\* yield and runs to the sleep that ends the iteration
ConsumerNext(dt) ==
    /\ pc \in {"p_yield", "g_yield"}
    /\ ended_streak' = 0
    /\ now + dt <= MaxTime
    /\ now' = now + dt
    /\ pc' = IF pc = "p_yield" THEN "p_idle" ELSE "g_idle"
    /\ ops' = <<>>
    /\ UNCHANGED <<init_caller, mode, generic_entries, cap, cap_opened,
                   orphans, successfully_captured, capture_interval,
                   fail_count, last_process_time, stream_url, emitted,
                   emit_sources, gate_interval, unclosed>>
    /\ UNCHANGED outsideEngine

\* asyncio.sleep(0.01) returns
IdleWake ==
    /\ pc \in {"p_idle", "g_idle"}
    /\ ended_streak' = 0
    /\ pc' = IF pc = "p_idle" THEN "p_top" ELSE "g_top"
    /\ ops' = <<>>
    /\ UNCHANGED <<init_caller, mode, generic_entries, cap, cap_opened,
                   orphans, successfully_captured, capture_interval,
                   fail_count, last_process_time, stream_url, now, emitted,
                   emit_sources, gate_interval, unclosed>>
    /\ UNCHANGED outsideEngine

\* what leaving the generator at a suspension point does to a handle c with
\* u handles not yet released: GeneratorExit / CancelledError propagate out
\* of the loops, which have no finally clause; the release_resources call
\* after the loop of execute_capture is not reached
OnCancel(c, u) == [cap |-> c, unclosed |-> u, ops |-> <<>>]

\* the consumer stops: the generator is closed at its suspension point
Cancel ==
    /\ pc \in Suspended
    /\ ended_streak' = 0
    /\ pc' = "cancelled"
    /\ cap' = OnCancel(cap, unclosed).cap
    /\ cap_opened' = (cap_opened /\ cap' # "None")
    /\ unclosed' = OnCancel(cap, unclosed).unclosed
    /\ ops' = OnCancel(cap, unclosed).ops
    /\ UNCHANGED <<init_caller, mode, generic_entries, orphans,
                   successfully_captured, capture_interval, fail_count,
                   last_process_time, stream_url, now, emitted,
                   emit_sources, gate_interval>>
    /\ UNCHANGED outsideEngine

\* variant of update_capture_interval that also restarts the gate
update_and_restart_gate(new_interval) ==
    /\ pc \in Suspended \cup {"created"}
    /\ ended_streak' = 0
    /\ new_interval # capture_interval
    /\ capture_interval' = new_interval
    /\ last_process_time' = now
    /\ ops' = <<>>
    /\ UNCHANGED <<pc, init_caller, mode, generic_entries, cap, cap_opened,
                   orphans, successfully_captured, fail_count, stream_url,
                   now, emitted, emit_sources, gate_interval, unclosed>>
    /\ UNCHANGED outsideEngine

update_capture_interval(new_interval) ==
    /\ pc \in Suspended \cup {"created"}
    /\ ended_streak' = 0
    /\ new_interval # capture_interval
    /\ capture_interval' = new_interval
    /\ ops' = <<>>
    /\ UNCHANGED <<pc, init_caller, mode, generic_entries, cap, cap_opened,
                   orphans, successfully_captured, fail_count,
                   last_process_time, stream_url, now, emitted,
                   emit_sources, gate_interval, unclosed>>
    /\ UNCHANGED outsideEngine

Steps == 0..MaxStep

Next ==
    \/ \E opened \in BOOLEAN : ExecuteCapture(opened)
    \/ \E opened \in BOOLEAN : InitRetry(opened)
    \/ \E ret \in BOOLEAN, opened \in BOOLEAN, dt \in Steps :
          PrimaryRead(ret, opened, dt)
    \/ \E s \in Speeds, a \in AvailableSets, r \in BOOLEAN, p \in BOOLEAN,
          opened \in BOOLEAN, fin \in BOOLEAN :
          GenericEntry(s, a, r, p, opened, fin)
    \/ \E ret \in BOOLEAN, dt \in Steps : GenericRead(ret, dt)
    \/ \E s \in Speeds, a \in AvailableSets, r \in BOOLEAN, p \in BOOLEAN,
          opened \in BOOLEAN : GenericReinit(s, a, r, p, opened)
    \/ \E dt \in Steps : ConsumerNext(dt)
    \/ IdleWake
    \/ Cancel
    \/ \E t \in Intervals : update_capture_interval(t)

Spec == Init /\ [][Next]_vars

\* ---------------------------------------- quality selection on its own
InitSelect ==
    /\ InitEngine
    /\ q_speed \in Speeds
    /\ q_streams \in SUBSET Labels
    /\ q_resolver_ok \in BOOLEAN
    /\ q_result = "unset"
    /\ InitSender
    /\ max_retries = DefaultMaxRetries
    /\ InitClient

SelectQuality ==
    /\ q_result = "unset"
    /\ q_result' = select_quality_based_on_speed(q_speed, q_streams,
                                                 q_resolver_ok)
    /\ UNCHANGED <<q_speed, q_streams, q_resolver_ok>>
    /\ UNCHANGED <<engineVars, sendVars, clientVars>>

NextSelect == SelectQuality

SpecSelect == InitSelect /\ [][NextSelect]_vars

\* ------------------------------------------------- send_violation on its own
TokenValues == {"None", "tokA", "tokB"}

Outcomes == {"ok", "timeout", "401", "status", "error"}

\* variant of the test that retries after the last attempt too
MayRetryAlways(a, mr) == a < mr

\* lines 181, 202, 208: attempt < self.max_retries - 1
MayRetry(a, mr) == a < mr - 1

\* for attempt in range(self.max_retries): the next iteration, or the
\* return None that follows the loop
NextAttempt(a) ==
    IF a < max_retries
    THEN /\ attempt' = a
         /\ send_pc' = "post"
         /\ UNCHANGED result
    ELSE /\ attempt' = attempt
         /\ send_pc' = "returned"
         /\ result' = "None"

Raise(exc) ==
    /\ send_pc' = "raised"
    /\ result' = exc
    /\ UNCHANGED attempt

\* asyncio.sleep(backoff_delay); backoff_delay *= 2
Backoff ==
    /\ waits' = Append(waits, backoff_delay)
    /\ backoff_delay' = backoff_delay * BackoffFactor

\* variant of the 401 handler that keeps the token it had
KeepHeader(old, new_token) == old

\* headers['Authorization'] = f"Bearer {new_token}"
HeaderAfterRefresh(old, new_token) == new_token

\* send_violation up to its retry loop; access_token is what
\* get_valid_token returned
SendViolation(access_token) ==
    /\ send_pc = "idle"
    /\ token' = access_token
    /\ IF access_token = "None"
       THEN /\ Raise("RuntimeError")
            /\ send_ops' = <<"get_valid_token">>
            /\ UNCHANGED <<headers, backoff_delay>>
       ELSE /\ headers' = access_token
            /\ backoff_delay' = InitialBackoff
            /\ send_ops' = <<"get_valid_token", "_get_client">>
            /\ NextAttempt(0)
    /\ UNCHANGED <<max_retries, posts, waits, outcomes, sent_token>>
    /\ UNCHANGED <<engineVars, selectVars, clientVars>>

\* one iteration of the retry loop: the POST and the handler of what it
\* gave; new_token is what get_valid_token returns after a refresh
Post(outcome, new_token) ==
    /\ send_pc = "post"
    /\ posts' = posts + 1
    /\ sent_token' = headers
    /\ outcomes' = Append(outcomes, outcome)
    /\ CASE outcome = "ok" ->
              /\ send_pc' = "returned"
              /\ result' = "violation_id"
              /\ send_ops' = <<"post">>
              /\ UNCHANGED <<attempt, headers, token, backoff_delay, waits>>
         [] outcome = "timeout" ->
              /\ UNCHANGED <<headers, token>>
              /\ IF MayRetry(attempt, max_retries)
                 THEN /\ Backoff
                      /\ send_ops' = <<"post", "sleep">>
                      /\ NextAttempt(attempt + 1)
                 ELSE /\ Raise("RuntimeError")
                      /\ send_ops' = <<"post">>
                      /\ UNCHANGED <<backoff_delay, waits>>
         [] outcome = "401" ->
              /\ token' = new_token
              /\ headers' = HeaderAfterRefresh(headers, new_token)
              /\ send_ops' = <<"post", "refresh_token", "get_valid_token">>
              /\ UNCHANGED <<backoff_delay, waits>>
              /\ IF MayRetry(attempt, max_retries)
                 THEN NextAttempt(attempt + 1)
                 ELSE Raise("HTTPStatusError")
         [] outcome = "status" ->
              /\ Raise("HTTPStatusError")
              /\ send_ops' = <<"post">>
              /\ UNCHANGED <<headers, token, backoff_delay, waits>>
         [] outcome = "error" ->
              /\ UNCHANGED <<headers, token>>
              /\ IF MayRetry(attempt, max_retries)
                 THEN /\ Backoff
                      /\ send_ops' = <<"post", "sleep">>
                      /\ NextAttempt(attempt + 1)
                 ELSE /\ Raise("Exception")
                      /\ send_ops' = <<"post">>
                      /\ UNCHANGED <<backoff_delay, waits>>
    /\ UNCHANGED max_retries
    /\ UNCHANGED <<engineVars, selectVars, clientVars>>

InitSend ==
    /\ InitEngine
    /\ InitSelection
    /\ InitSender
    /\ max_retries \in 0..MaxRetries
    /\ InitClient

NextSend ==
    \/ \E access_token \in TokenValues : SendViolation(access_token)
    \/ \E outcome \in Outcomes, new_token \in TokenValues :
          Post(outcome, new_token)

SpecSend == InitSend /\ [][NextSend]_vars

\* -------------------------------------------- _get_client and close, tasks
\* variant of the lock that lets every caller in
NeverWait == FALSE

\* asyncio.Lock.acquire suspends the caller when the lock is held or
\* another task is already waiting for it
MustWait == client_lock \/ lock_waiters # <<>>

\* if self._client is None or self._client.is_closed
NeedsClient == client = 0 \/ client \in closed

\* the body of _get_client, run by task t with the lock
GetClientBody(t) ==
    /\ IF NeedsClient
       THEN /\ created < MaxClients
            /\ created' = created + 1
            /\ client' = created + 1
            /\ c_ops' = <<"AsyncClient">>
       ELSE /\ c_ops' = <<>>
            /\ UNCHANGED <<created, client>>
    /\ c_got' = client'
    /\ task_pc' = [task_pc EXCEPT ![t] = "idle"]
    /\ c_call' = "_get_client"
    /\ UNCHANGED <<closed, client_lock, target>>

\* the body of close up to its await, run by task t with the lock
CloseBody(t) ==
    /\ IF client # 0 /\ client \notin closed
       THEN /\ task_pc' = [task_pc EXCEPT ![t] = "closing"]
            /\ target' = [target EXCEPT ![t] = client]
            /\ client_lock' = TRUE
            /\ c_ops' = <<"aclose">>
       ELSE /\ task_pc' = [task_pc EXCEPT ![t] = "idle"]
            /\ c_ops' = <<>>
            /\ UNCHANGED <<client_lock, target>>
    /\ c_call' = "close"
    /\ c_got' = 0
    /\ UNCHANGED <<client, closed, created>>

\* async with self._client_lock, when the lock is not free
WaitForLock(t, pos) ==
    /\ lock_waiters' = Append(lock_waiters, t)
    /\ task_pc' = [task_pc EXCEPT ![t] = pos]
    /\ c_call' = "wait"
    /\ c_ops' = <<>>
    /\ c_got' = 0
    /\ UNCHANGED <<client, closed, created, client_lock, target>>

\* task t calls _get_client
CallGetClient(t) ==
    /\ task_pc[t] = "idle"
    /\ IF MustWait
       THEN WaitForLock(t, "wait_get")
       ELSE GetClientBody(t) /\ UNCHANGED lock_waiters
    /\ UNCHANGED <<engineVars, selectVars, sendVars>>

\* task t calls close
CallClose(t) ==
    /\ task_pc[t] = "idle"
    /\ IF MustWait
       THEN WaitForLock(t, "wait_close")
       ELSE CloseBody(t) /\ UNCHANGED lock_waiters
    /\ UNCHANGED <<engineVars, selectVars, sendVars>>

\* the lock was released: the first waiting task gets it and runs its body
Resume(t) ==
    /\ lock_waiters # <<>>
    /\ Head(lock_waiters) = t
    /\ ~client_lock
    /\ lock_waiters' = Tail(lock_waiters)
    /\ IF task_pc[t] = "wait_get" THEN GetClientBody(t) ELSE CloseBody(t)
    /\ UNCHANGED <<engineVars, selectVars, sendVars>>

\* await self._client.aclose() returns: self._client = None, and the lock
\* is released
AcloseDone(t) ==
    /\ task_pc[t] = "closing"
    /\ closed' = closed \cup {target[t]}
    /\ client' = 0
    /\ client_lock' = FALSE
    /\ task_pc' = [task_pc EXCEPT ![t] = "idle"]
    /\ c_call' = "aclose_done"
    /\ c_ops' = <<>>
    /\ c_got' = 0
    /\ UNCHANGED <<created, lock_waiters, target>>
    /\ UNCHANGED <<engineVars, selectVars, sendVars>>

InitClients ==
    /\ InitEngine
    /\ capture_interval = 1
    /\ InitSelection
    /\ InitSender
    /\ max_retries = DefaultMaxRetries
    /\ InitClient

NextClients ==
    \/ \E t \in Tasks : CallGetClient(t)
    \/ \E t \in Tasks : CallClose(t)
    \/ \E t \in Tasks : Resume(t)
    \/ \E t \in Tasks : AcloseDone(t)

SpecClients == InitClients /\ [][NextClients]_vars

TypeOK ==
    /\ client \in 0..MaxClients
    /\ closed \subseteq 1..MaxClients
    /\ created \in 0..MaxClients
    /\ client_lock \in BOOLEAN
    /\ task_pc \in [Tasks -> {"idle", "wait_get", "wait_close", "closing"}]
    /\ c_got \in 0..MaxClients
    /\ send_pc \in {"idle", "post", "returned", "raised"}
    /\ max_retries \in 0..MaxRetries
    /\ attempt \in 0..MaxRetries
    /\ posts \in 0..MaxRetries
    /\ headers \in TokenValues \cup {"unset"}
    /\ token \in TokenValues \cup {"unset"}
    /\ sent_token \in TokenValues \cup {"unset"}
    /\ result \in {"none", "None", "violation_id", "RuntimeError",
                   "HTTPStatusError", "Exception"}
    /\ pc \in Suspended \cup {"created", "p_top", "g_entry", "g_top", "done",
                              "raised", "cancelled"}
    /\ mode \in {"Primary", "Fallback"}
    /\ cap \in {"None", "primary", "generic"}
    /\ cap_opened \in BOOLEAN
    /\ fail_count \in 0..MaxFail
    /\ unclosed \in 0..2
    /\ orphans \in 0..1
    /\ now \in 0..MaxTime
    /\ Len(emitted) <= 2

\* ------------------------------------------------------------------ claims
Emits == Len(ops') > 0 /\ ops'[Len(ops')] = "emit"

PrimaryReadFails == pc = "p_top" /\ cap # "None" /\ fail_count' = fail_count + 1

PrimaryReadSucceeds == pc = "p_top" /\ pc' \in {"p_idle", "p_yield"}

Handoff == mode = "Primary" /\ mode' = "Fallback"

\* C1: the primary loop hands off to capture_generic_frames exactly when the
\* 5th consecutive failed read happens with successfully_captured false: a
\* handoff leaves fail_count at 5 with the flag false (not earlier), the
\* primary loop is never back at its read with 5 or more failures and the
\* flag false (not later), and once handed off every yielded frame comes
\* from the fallback loop and the primary source is not read again.
C1_HandoffAtFifthFailure ==
    [][/\ Handoff =>
            fail_count' = FailThreshold /\ ~successfully_captured'
       /\ (mode' = "Primary" /\ pc' = "p_top") =>
            (fail_count' < FailThreshold \/ successfully_captured')
       /\ (mode' = "Fallback" /\ Emits) =>
            emitted'[Len(emitted')].src = "generic"
       /\ mode = "Fallback" =>
            \A i \in 1..Len(ops') : ops'[i] # "read_primary"]_vars

\* C1 witness: after the handoff a frame has been yielded
C1_Witness ==
    /\ mode = "Fallback"
    /\ pc = "g_yield"
    /\ emitted # <<>>

\* C2: a streak of fewer than 5 failed reads in the primary loop that a
\* successful read ends causes no handoff (a handoff needs fail_count >= 5,
\* and the successful read leaves the engine in the primary loop), and
\* fail_count is 0 right after that successful read.
C2_ShortStreakResets ==
    [][/\ Handoff => fail_count' >= FailThreshold
       /\ PrimaryReadSucceeds =>
            /\ fail_count' = 0
            /\ mode' = "Primary"
            /\ ended_streak' = fail_count
            /\ (~successfully_captured => fail_count < FailThreshold)]_vars

\* C2 witness: a successful read has just ended a streak of 4 failures
C2_Witness ==
    /\ mode = "Primary"
    /\ ended_streak = FailThreshold - 1
    /\ fail_count = 0
    /\ pc \in {"p_idle", "p_yield"}

\* C3: once a read has succeeded the flag stays set, the engine stays in the
\* primary loop whatever the number of later failures, and every failed read
\* of the primary loop releases the handle and opens the primary source again.
C3_NoHandoffAfterSuccess ==
    [][/\ successfully_captured => successfully_captured'
       /\ (successfully_captured /\ mode = "Primary") => mode' = "Primary"
       /\ (successfully_captured /\ PrimaryReadFails) =>
            /\ ops' = <<"read_primary", "close", "open_primary">>
            /\ cap' = "primary"
            /\ pc' \in {"p_top", "init_sleep"}]_vars

\* C3 witness: more than 5 failures in a row after a success, still primary
C3_Witness ==
    /\ mode = "Primary"
    /\ successfully_captured
    /\ fail_count > FailThreshold
    /\ pc = "p_top"

\* C4: two frames yielded one after the other have timestamps t1 < t2 with
\* t2 - t1 >= capture_interval (as read by the gate that let the second
\* through), in both loops, and the timestamp of the last frame is the value
\* last_process_time was set to.
C4_FramesSpaced ==
    /\ Len(emitted) = 2 =>
          /\ emitted[1].ts < emitted[2].ts
          /\ emitted[2].ts - emitted[1].ts >= gate_interval
    /\ emitted # <<>> => emitted[Len(emitted)].ts = last_process_time

\* C4 witness: two frames of the fallback loop, the second one just yielded
\* through a gate of 2 seconds
C4_Witness ==
    /\ Len(emitted) = 2
    /\ emitted[2].src = "generic"
    /\ gate_interval = 2
    /\ pc = "g_yield"

\* the ladders as the specification lists them
C5_Ladder ==
    IF q_speed.num > 10 * q_speed.den
    THEN <<"best", "1080p", "720p", "480p", "360p", "240p", "worst">>
    ELSE IF q_speed.num > 5 * q_speed.den
    THEN <<"720p", "480p", "360p", "240p", "worst">>
    ELSE <<"480p", "360p", "240p", "worst">>

C5_Present == {i \in 1..Len(C5_Ladder) : C5_Ladder[i] \in q_streams}

\* C5: the selection returns the source of the first label of the ladder of
\* the measured speed that the tier set holds, and no source exactly when the
\* tier set holds no label of the ladder or the resolver fails; the three
\* examples of the specification come out as stated.
C5_SelectionByLadder ==
    q_result # "unset" =>
        /\ (q_result = "None") <=> (~q_resolver_ok \/ C5_Present = {})
        /\ q_result # "None" =>
              \E i \in C5_Present :
                  /\ q_result = C5_Ladder[i]
                  /\ \A j \in C5_Present : i <= j
        /\ (/\ q_speed = [num |-> 7, den |-> 1]
            /\ q_streams = {"480p", "360p", "worst"}
            /\ q_resolver_ok) => q_result = "480p"
        /\ (/\ q_speed = [num |-> 12, den |-> 1]
            /\ q_streams = {"720p", "worst"}
            /\ q_resolver_ok) => q_result = "720p"
        /\ (/\ q_speed = [num |-> 3, den |-> 1]
            /\ q_streams = {"1080p"}) => q_result = "None"

\* C5 witness: 10 Mbps exactly with 1080p and 480p on offer selects 480p
C5_Witness ==
    /\ q_speed = [num |-> 10, den |-> 1]
    /\ q_streams = {"1080p", "480p"}
    /\ q_resolver_ok
    /\ q_result = "480p"

\* C6: when the consumer cancels at a suspension point the open handle is
\* released and no frame is yielded afterwards.
C6_CancelReleases ==
    pc = "cancelled" => (cap = "None" /\ unclosed = 0)

\* C7: handles never leak: a handle is released before a new one replaces
\* it, so handles created minus handles released is never more than 1.
C7_NoLeak == unclosed <= 1

\* C8: at most one handle is open at a time, and the handle of the primary
\* loop is released before control is in the fallback loop.
C8_OneHandle ==
    /\ LiveHandles <= 1
    /\ mode = "Fallback" => cap # "primary"

\* C9: the mode changes only from Primary to Fallback, capture_generic_frames
\* is entered at most once, and once it is entered the primary source is
\* neither opened nor read again, also after the fallback loop has ended.
C9_OneWayHandoff ==
    [][/\ mode = "Fallback" =>
            /\ mode' = "Fallback"
            /\ \A i \in 1..Len(ops') : ops'[i] \notin PrimaryOps
            /\ pc' \notin {"created", "p_top", "p_idle", "p_yield"}
       /\ generic_entries' <= 1
       /\ generic_entries' = IF mode' = "Fallback" THEN 1 ELSE 0]_vars

\* C9 witness: the fallback loop has ended
C9_Witness ==
    /\ mode = "Fallback"
    /\ pc = "done"
    /\ generic_entries = 1

\* C10 as stated: no failure ends the run; execute_capture ends only when the
\* consumer cancels.
C10_NeverEndsByItself == pc \notin {"done", "raised"}

RunOver == {"done", "raised", "cancelled"}

\* C10 amended: no failed read and no failed re-selection ends the run.
\* execute_capture ends by itself only in the quality selection of the
\* fallback: it returns when the first selection, at the entry of
\* capture_generic_frames, finds no source, and it ends with the exception of
\* the bandwidth probe when the probe raises.
C10_EndsOnlyInSelection ==
    [][/\ (pc \notin RunOver /\ pc' = "done") =>
            /\ pc = "g_entry"
            /\ ops' = <<"probe", "resolve">>
            /\ stream_url' = "None"
       /\ (pc \notin RunOver /\ pc' = "raised") =>
            /\ pc \in {"g_entry", "g_wait"}
            /\ ops'[Len(ops')] = "probe"
       /\ fail_count' > fail_count => pc' \notin RunOver
       /\ (pc = "g_wait" /\ pc' \notin {"raised", "cancelled", "g_wait"}) =>
            pc' \in {"g_top", "init_sleep"}]_vars

\* C10 witness: still in the fallback loop after 5 failures in a row and a
\* re-selection that found no quality
C10_Witness ==
    /\ pc = "g_top"
    /\ mode = "Fallback"
    /\ stream_url = "None"
    /\ cap = "None"
    /\ fail_count >= FailThreshold

\* C11: the first successful read of a run is yielded, in the primary loop
\* and in the fallback loop alike.
C11_FirstSuccessEmitted == successfully_captured => emitted # <<>>

ReadSucceeds ==
    /\ pc \in {"p_top", "g_top"}
    /\ pc' \in {"p_idle", "p_yield", "g_idle", "g_yield"}

\* C12: a change of capture_interval changes nothing else (last_process_time,
\* fail_count, the flag, the mode, the handle, the position of the loops, the
\* frames yielded) and makes no call; the gate of the next successful read
\* yields the frame exactly when the time since last_process_time is at
\* least the interval in force at that read.
C12_UpdateOnlyInterval ==
    [][/\ capture_interval' # capture_interval =>
            /\ UNCHANGED <<last_process_time, fail_count,
                           successfully_captured, mode, generic_entries,
                           cap, cap_opened, unclosed, pc, emitted,
                           emit_sources, gate_interval, now, stream_url>>
            /\ ops' = <<>>
       /\ ReadSucceeds =>
            /\ capture_interval' = capture_interval
            /\ Emits <=> now' - last_process_time >= capture_interval
            /\ Emits => gate_interval' = capture_interval]_vars

\* C12 witness: the interval was raised from 1 to 2 after a frame was
\* yielded, and the read one second after that frame was not yielded
C12_Witness ==
    /\ pc = "p_idle"
    /\ ops = <<"read_primary">>
    /\ emitted # <<>>
    /\ gate_interval = 1
    /\ capture_interval = 2
    /\ now - last_process_time = 1

\* the fallback loop releases the handle after a failed read
GenericRelease == pc = "g_top" /\ pc' = "g_wait"

\* C13: release_resources is idempotent. Called with no handle it makes no
\* call on the reader and changes neither the handle nor the number of
\* handles not yet released; called twice in a row it closes the handle once
\* and no handle is held afterwards. The same is true of the calls the
\* fallback loop makes: with a handle it closes it once, and the next
\* release, made with no handle, closes nothing.
C13_ReleaseIdempotent ==
    /\ [](LET r1 == release_resources(cap, unclosed)
              r2 == release_resources(r1.cap, r1.unclosed)
          IN  /\ r1.cap = "None"
              /\ r2.cap = "None"
              /\ r2.unclosed = r1.unclosed
              /\ r2.ops = <<>>
              /\ Len(r1.ops \o r2.ops) = (IF cap = "None" THEN 0 ELSE 1)
              /\ cap = "None" => r1.unclosed = unclosed /\ r1.ops = <<>>
              /\ cap # "None" =>
                     r1.unclosed = unclosed - 1 /\ r1.ops = <<"close">>)
    /\ [][GenericRelease =>
              /\ cap' = "None"
              /\ cap = "None" => ops' = <<>> /\ unclosed' = unclosed
              /\ cap # "None" =>
                     /\ ops' = <<"read_generic", "close">>
                     /\ unclosed' = unclosed - 1]_vars

C13_Witness ==
    /\ pc = "g_wait"
    /\ cap = "None"
    /\ fail_count = FailThreshold + 1
    /\ ops = <<>>

GenericReadFails == pc = "g_top" /\ fail_count' = fail_count + 1

\* the fallback loop goes on after the sleep that follows a release
GenericResumes == pc = "g_wait" /\ pc' \notin {"g_wait", "cancelled"}

\* C14: in the fallback loop, while no read has ever succeeded, the failed
\* read that brings the counter to 5 releases the handle (read, then close)
\* and the loop waits; when the wait is over 5 time units have passed and the
\* loop probes the bandwidth, resolves the qualities and, if a source was
\* selected, opens a new handle on it, in this order, and goes back to
\* reading with the counter at 0. A failed read that leaves the counter
\* below 5 does none of this and keeps the same handle.
C14_ReinitAtFifthFailure ==
    [][/\ (GenericReadFails /\ ~successfully_captured
             /\ fail_count' >= FailThreshold) =>
              /\ pc' = "g_wait"
              /\ cap' = "None"
              /\ now' - now <= MaxStep
              /\ cap # "None" =>
                     /\ ops' = <<"read_generic", "close">>
                     /\ unclosed' = unclosed - 1
       /\ (GenericReadFails /\ fail_count' < FailThreshold) =>
              /\ pc' = "g_top"
              /\ ops' = <<"read_generic">>
              /\ UNCHANGED <<cap, cap_opened, unclosed, stream_url>>
       /\ GenericResumes =>
              /\ now' = now + RetryDelay
              /\ SubSeq(ops', 1, 2) = <<"sleep", "probe">>
              /\ pc' # "raised" =>
                     /\ SubSeq(ops', 1, 3) = <<"sleep", "probe", "resolve">>
                     /\ stream_url' = "None" =>
                            /\ Len(ops') = 3
                            /\ UNCHANGED <<cap, unclosed, fail_count>>
                     /\ stream_url' # "None" =>
                            /\ ops' = <<"sleep", "probe", "resolve",
                                        "open_generic">>
                            /\ cap' = "generic"
                            /\ unclosed' = unclosed + 1
                            /\ pc' \in {"g_top", "init_sleep"}
                            /\ pc' = "g_top" => fail_count' = 0
       /\ (pc = "init_sleep" /\ init_caller = "g_reinit"
             /\ pc' \notin {"init_sleep", "cancelled"}) =>
              (pc' = "g_top" /\ fail_count' = 0 /\ cap' = "generic")]_vars

C14_Witness ==
    /\ pc = "g_top"
    /\ ops = <<"sleep", "probe", "resolve", "open_generic">>
    /\ fail_count = 0
    /\ ~successfully_captured
    /\ cap = "generic"
    /\ now >= RetryDelay

C16_NoReinitAfterSuccess ==
    [][(mode = "Fallback" /\ successfully_captured) =>
          /\ pc \notin {"g_wait", "init_sleep", "g_entry"}
          /\ UNCHANGED <<cap, cap_opened, unclosed, stream_url>>
          /\ OpsSet' \subseteq {"read_generic", "emit"}
          /\ cap = "generic"
          /\ GenericReadFails =>
                /\ pc' = "g_top"
                /\ ops' = <<"read_generic">>
                /\ now' - now <= MaxStep
          /\ fail_count' < fail_count =>
                (fail_count' = 0 /\ pc' \in {"g_idle", "g_yield"})]_vars

C16_Witness ==
    /\ mode = "Fallback"
    /\ successfully_captured
    /\ fail_count > FailThreshold
    /\ pc = "g_top"
    /\ ops = <<"read_generic">>

\* an open made by initialise_stream fails
OpenFails ==
    /\ Len(ops') > 0
    /\ ops'[Len(ops')] \in {"open_primary", "open_generic"}
    /\ ~cap_opened'

\* C17 as stated: the wait and retry of a failed open happens at startup
\* only, never on a reconnect inside a loop.
C17_GraceOnlyAtStartup == pc = "init_sleep" => init_caller = "start"

\* C17: every call of initialise_stream whose open fails (at startup, on a
\* reconnect after a failed read, on an open of the fallback source) waits
\* 5 time units and retries the open once on the same handle, and goes on
\* whatever the retry gives; no other step waits in initialise_stream. The
\* retry is not counted as a failure: after it the counter is what the
\* caller makes it, unchanged on a reconnect of the primary loop and 0 at
\* startup and in capture_generic_frames.
C17_GraceOncePerOpen ==
    [][/\ OpenFails <=> (pc # "init_sleep" /\ pc' = "init_sleep")
       /\ (pc = "init_sleep" /\ pc' = "init_sleep") =>
              UNCHANGED <<now, cap, cap_opened, unclosed, fail_count>>
       /\ (pc = "init_sleep" /\ pc' \notin {"init_sleep", "cancelled"}) =>
              /\ now' = now + RetryDelay
              /\ ops' = <<"sleep", RetryOp(cap)>>
              /\ UNCHANGED <<cap, unclosed>>
              /\ pc' \in {"p_top", "g_top", "g_entry"}
              /\ fail_count' = IF init_caller \in {"p_top", "p_fail"}
                               THEN fail_count ELSE 0]_vars

C17_Witness ==
    /\ pc = "p_top"
    /\ mode = "Primary"
    /\ ops = <<"sleep", "retry_open_primary">>
    /\ fail_count \in 1..(FailThreshold - 1)
    /\ ~cap_opened

\* C18: the handoff happens only while nothing has been emitted, and the
\* primary loop emits nothing after it, so the frames of one run all come
\* from the same loop: in Primary mode every emitted frame is a primary one,
\* in Fallback mode every emitted frame is a generic one.
C18_FramesFromOneLoop ==
    /\ [](/\ Cardinality(emit_sources) <= 1
          /\ mode = "Primary" => emit_sources \subseteq {"primary"}
          /\ mode = "Fallback" => emit_sources \subseteq {"generic"}
          /\ \A i \in 1..Len(emitted) : emitted[i].src \in emit_sources)
    /\ [][Handoff => (emitted = <<>> /\ ~successfully_captured
                       /\ emit_sources = {})]_vars

C18_Witness ==
    /\ mode = "Fallback"
    /\ emit_sources = {"generic"}
    /\ Len(emitted) = 2
    /\ emitted[1].src = "generic"
    /\ pc = "g_yield"

Yielded == pc \in {"p_yield", "g_yield"}

\* C19: the generator is driven by the pulls of its consumer. A step that
\* emits a frame suspends the generator at its yield; while it is suspended
\* there the engine makes no call on the reader, the probe or the resolver
\* and changes neither the handle nor the frames emitted, and it leaves the
\* yield only when the consumer asks for the next frame or stops. So a frame
\* is emitted only when the previous one has been handed back.
C19_PullDriven ==
    [][/\ Emits <=> (~Yielded /\ pc' \in {"p_yield", "g_yield"})
       /\ Yielded =>
              /\ ops' = <<>>
              /\ UNCHANGED <<cap, cap_opened, unclosed, orphans, emitted,
                             emit_sources, stream_url, fail_count,
                             last_process_time>>
              /\ pc' \in {pc, "cancelled",
                          IF pc = "p_yield" THEN "p_idle" ELSE "g_idle"}
       /\ emitted' # emitted => (~Yielded /\ Emits)]_vars

C19_Witness ==
    /\ pc = "p_yield"
    /\ Len(emitted) = 2
    /\ ops = <<"read_primary", "emit">>
    /\ emitted[2].ts = now
    /\ emitted[1].ts < now

Finished == send_pc \in {"returned", "raised"}

AllTimeouts == \A i \in 1..Len(outcomes) : outcomes[i] = "timeout"

Posted(o) ==
    /\ send_pc = "post"
    /\ posts' = posts + 1
    /\ outcomes'[Len(outcomes')] = o

\* C21: in send_violation a 401 on an attempt that is not the last one
\* makes the handler call refresh_token and get_valid_token, put the token it
\* got in the Authorization header and go to the next attempt without a
\* sleep, and that attempt posts with the new token. A 401 on the last
\* attempt and an HTTP status error other than 401 on any attempt are
\* raised to the caller as they are, and no POST follows a raise.
C21_RefreshOn401 ==
    [][/\ (Posted("401") /\ attempt < max_retries - 1) =>
              /\ send_ops' = <<"post", "refresh_token", "get_valid_token">>
              /\ headers' = token'
              /\ UNCHANGED <<waits, backoff_delay>>
              /\ send_pc' = "post"
              /\ attempt' = attempt + 1
       /\ (Posted("401") /\ attempt >= max_retries - 1) =>
              /\ send_pc' = "raised"
              /\ result' = "HTTPStatusError"
              /\ UNCHANGED waits
       /\ Posted("status") =>
              /\ send_pc' = "raised"
              /\ result' = "HTTPStatusError"
              /\ send_ops' = <<"post">>
              /\ UNCHANGED <<waits, headers, token>>
       /\ send_pc = "post" => sent_token' = headers \/ posts' = posts
       /\ send_pc = "raised" => UNCHANGED <<posts, outcomes, send_pc>>]_vars

C21_Witness ==
    /\ send_pc = "returned"
    /\ outcomes = <<"401", "ok">>
    /\ token = "tokB"
    /\ sent_token = "tokB"
    /\ headers = "tokB"
    /\ waits = <<>>
    /\ posts = 2

\* the clients created and not closed
Unclosed == {c \in 1..created : c \notin closed}

Closing == {t \in Tasks : task_pc[t] = "closing"}

\* C22: whatever the interleaving of the tasks that call _get_client and
\* close, at most one client is unclosed and it is the one self._client
\* holds; the lock is held exactly while one task awaits aclose, and no body
\* runs meanwhile. A _get_client that finds an unclosed client returns that
\* same client and creates none, so callers with no close between them get
\* the same instance; the client it returns is not closed when it returns;
\* after a close it creates a new client, never one seen before. A close
\* that finds no client calls nothing and changes nothing; a close that
\* finds one calls aclose on it and leaves no client held.
C22_OneClient ==
    /\ [](/\ Cardinality(Unclosed) <= 1
          /\ Unclosed \subseteq {client}
          /\ c_got # 0 => (c_got = client /\ c_got \notin closed)
          /\ Cardinality(Closing) <= 1
          /\ client_lock <=> Closing # {}
          /\ \A t \in Closing : target[t] = client)
    /\ [][/\ (c_call' = "_get_client" /\ client # 0 /\ client \notin closed)
                => (c_got' = client /\ UNCHANGED <<client, created, closed>>)
          /\ (c_call' = "_get_client" /\ client = 0) =>
                /\ c_ops' = <<"AsyncClient">>
                /\ created' = created + 1
                /\ c_got' = created'
                /\ c_got' \notin closed'
          /\ (c_call' = "close" /\ client = 0) =>
                /\ c_ops' = <<>>
                /\ UNCHANGED <<client, closed, created, client_lock>>
          /\ (c_call' = "close" /\ client # 0) =>
                (c_ops' = <<"aclose">> /\ client_lock')
          /\ (c_call' = "aclose_done" /\ client # 0) =>
                (client' = 0 /\ client \in closed' /\ ~client_lock')
          /\ client_lock => c_call' \in {"wait", "aclose_done", c_call}]_vars

C22_Witness ==
    /\ c_call = "_get_client"
    /\ c_ops = <<"AsyncClient">>
    /\ created = 2
    /\ closed = {1}
    /\ c_got = 2
    /\ lock_waiters # <<>>
    /\ task_pc[Head(lock_waiters)] = "wait_get"

====
